---- MODULE Spec2Model ----
(***************************************************************************)
(* Model of the two long-lived communication primitives of the client:     *)
(*   - WebsocketWrapper (src/src/base-client.ts), the reconnecting duplex  *)
(*     channel with its pending-request table;                             *)
(*   - EventSauce and SSE (src/src/base/sse.ts), the server-push stream    *)
(*     parser and its facade.                                              *)
(***************************************************************************)
EXTENDS Integers, Sequences, FiniteSets, TLC

\* ------------------------------------------------------------------ bounds
\* sockets constructed in a run that explores the connection lifecycle
MaxSockets == 7
\* sockets constructed in a run that explores sending across a reconnect
MaxMsgSockets == 2
MaxSends == 2
MaxFrames == 2
MaxTicks == 1
\* packets in a response body
MaxPackets == 2
\* calls of SSE.reconnect(), and events that the streams of a facade emit
MaxReconnects == 2
MaxStreamMessages == 2

\* --------------------------------------------------------- program constants
\* `this.reconnectTries++ < 5`
MaxTries == 5
\* `setTimeout(..., 5000)`
TimeoutMs == 5000

\* `undefined`, for the socket reference, the disconnect reason and a close
\* event without reason
Undefined == "undefined"
NoSocket == 0
\* a message without a numeric `id` field
NoId == -1

VARIABLES
    \* ---- WebsocketWrapper fields
    open,              \* this.open
    disconnectReason,  \* this.disconnectReason
    reconnect,         \* this.reconnect
    reconnectTries,    \* this.reconnectTries
    pending,           \* this.pending : id -> resolver (index of the request)
    ws,                \* this.ws : the n-th constructed socket, or NoSocket
    subs,              \* which of onConnect/onFailure/onDisconnect/onMessage are set
    \* ---- environment of the channel
    nSockets,          \* sockets produced by websocketConstructor so far
    sockPhase,         \* lifecycle of the current socket
    sockErred,         \* the current socket has delivered its error event
    closeCalled,       \* sockets on which close() has been called
    now,               \* Date.now()
    \* ---- what callers and subscribers observe
    requests,          \* the promises returned by send(message, true), with timers
    written,           \* frames handed to ws.send, in order
    calls,             \* invocations of the connect/failure/disconnect subscribers
    delivered,         \* messages handed to the message subscriber, in order
    thrown,            \* an exception has escaped send or a socket callback
    ignored,           \* text frames of the current socket that found no subscriber
    staleSeen,         \* a socket that is not this.ws has delivered an event
    sinceOpen,         \* sockets constructed since the last open of a current socket
    onlyCloses,        \* every event delivered by a current socket so far was a close
    scope,             \* what the run explores: "lifecycle", "messaging", "handover"
    destroyed,         \* destroy() has been called
    \* ---- EventSauce fields
    readyState,        \* this.readyState
    reconnectAfter,    \* this.reconnectAfter
    lastEventId,       \* this.lastEventId
    buffer,            \* the local `buffer` of the read loop
    \* ---- environment of the parser
    response,          \* how options.fetch(request) settles
    body,              \* the text of the response body
    unread,            \* the part of the body the reader has not delivered yet
    pc,                \* where the promise chain of the constructor stands
    handlerThrows,     \* the onopen/onmessage/onerror subscribers throw when called
    \* ---- what the parser's subscribers observe
    emitted,           \* events passed to onopen/onmessage/onerror, in order
    logged,            \* calls of console.error by the parser
    \* ---- SSE fields
    sseOpen,           \* SSE.open
    sse,               \* SSE.sse : the n-th stream produced by init()
    messageHandler,    \* SSE.messageHandler is set
    closeHandler,      \* SSE.closeHandler is set
    \* ---- environment of the facade
    nStreams,          \* streams produced by init() so far
    streamState,       \* readyState of each stream
    wired,             \* streams whose onopen/onerror/onmessage are the facade's
    \* ---- what the facade's callers observe
    received,          \* invocations of the handlers given to onMessage/onClose
    reconnects,        \* calls of reconnect()
    streamMessages,    \* message events emitted by the streams
    dropped            \* events the facade's onmessage returned on for their type

chanVars == <<open, disconnectReason, reconnect, reconnectTries, pending, ws, subs>>
envVars == <<nSockets, sockPhase, sockErred, closeCalled, now>>
obsVars == <<requests, written, calls, delivered, thrown, ignored, staleSeen, sinceOpen,
             onlyCloses, destroyed, scope>>
wsVars == <<chanVars, envVars, obsVars>>

sseVars == <<readyState, reconnectAfter, lastEventId, buffer, response, body, unread,
             pc, handlerThrows, emitted, logged>>

facadeVars == <<sseOpen, sse, messageHandler, closeHandler, nStreams, streamState,
                wired, received, reconnects, streamMessages, dropped>>

vars == <<wsVars, sseVars, facadeVars>>

Subscribers == {"connect", "failure", "disconnect", "message"}
Reasons == {Undefined, "away"}
ClientMessages == {"valid", "invalid"}

\* ------------------------------------------------------------------ helpers
Remove(f, k) == [x \in DOMAIN f \ {k} |-> f[x]]
Put(f, k, v) == [x \in DOMAIN f \cup {k} |-> IF x = k THEN v ELSE f[x]]

\* `reason ?? ''`
OrEmpty(r) == IF r = Undefined THEN "" ELSE r

\* Date.now()
DateNow == now

\* the caller-supplied parseClient, which throws on a shape mismatch
ParseClientOk(message) == message = "valid"

\* `X && X(...)` for the connect, failure and disconnect subscribers
Invoke(name) ==
    IF name \in subs
    THEN calls' = [calls EXCEPT ![name] = @ + 1]
    ELSE UNCHANGED calls

InvokeDisconnect(reason) ==
    IF "disconnect" \in subs
    THEN calls' = [calls EXCEPT !.disconnect = @ + 1, !.reason = reason]
    ELSE UNCHANGED calls

\* the handler returns without constructing a socket: the socket that delivered
\* the event moves on in its own lifecycle
KeepSocket(s, phase, erred) ==
    /\ sockPhase' = IF s = ws THEN phase ELSE sockPhase
    /\ sockErred' = IF s = ws THEN erred ELSE sockErred
    /\ UNCHANGED <<nSockets, closeCalled>>

\* What a run explores.  A lifecycle run follows the connect/reconnect state
\* machine over many sockets and sends nothing; a messaging run sends and
\* receives over the constructor's socket; a handover run sends and receives
\* across reconnects, with one send and one frame less.
Scopes == {"lifecycle", "messaging", "handover"}
SocketLimit ==
    CASE scope = "lifecycle" -> MaxSockets
      [] scope = "messaging" -> 1
      [] scope = "handover" -> MaxMsgSockets
SendLimit ==
    CASE scope = "lifecycle" -> 0
      [] scope = "messaging" -> MaxSends
      [] scope = "handover" -> MaxSends - 1
FrameLimit ==
    CASE scope = "lifecycle" -> 0
      [] scope = "messaging" -> MaxFrames
      [] scope = "handover" -> MaxFrames - 1
TickLimit == IF scope = "lifecycle" THEN 0 ELSE MaxTicks
\* a lifecycle run registers the lifecycle subscribers, the other runs the
\* message subscriber
ScopeSubscribers ==
    IF scope = "lifecycle" THEN {"connect", "failure", "disconnect"} ELSE {"message"}

\* calls of send that left a trace: a written frame or a rejected promise
Rejected == {i \in 1..Len(requests) : requests[i].status = "rejected"}
SendsSoFar == Len(written) + Cardinality(Rejected)
\* text frames of a current socket that were processed: handed to the
\* subscriber, used to resolve a pending request, or passed over for want of a
\* subscriber
Resolved == {i \in 1..Len(requests) : requests[i].status = "resolved"}
FramesSoFar == Len(delivered) + Cardinality(Resolved) + ignored

\* only a lifecycle run registers the disconnect subscriber and so observes the
\* close reason
ScopeReasons == IF scope = "lifecycle" THEN Reasons ELSE {Undefined}

\* initWebsocket(), lines 184-191: close the old socket, construct and record
\* the new one
InitWebsocketMutKeepOpen ==
    /\ nSockets < SocketLimit
    /\ closeCalled' = IF ws # NoSocket THEN closeCalled \cup {ws} ELSE closeCalled
    /\ open' = open
    /\ nSockets' = nSockets + 1
    /\ ws' = nSockets + 1
    /\ sockPhase' = "connecting"
    /\ sockErred' = FALSE
InitWebsocket ==
    /\ nSockets < SocketLimit
    /\ closeCalled' = IF ws # NoSocket THEN closeCalled \cup {ws} ELSE closeCalled
    /\ open' = FALSE
    /\ nSockets' = nSockets + 1
    /\ ws' = nSockets + 1
    /\ sockPhase' = "connecting"
    /\ sockErred' = FALSE

\* `if (this.ws !== ws) return;` negated: the callback was bound to this.ws
IsCurrentMutNoGuard(s) == TRUE
IsCurrent(s) == ws = s

\* ------------------------------------------------------- socket callbacks
\* ws.onopen
OnOpenMutAlwaysConnect(s) ==
    IF ws # s
    THEN /\ UNCHANGED <<open, disconnectReason, reconnectTries, ws, calls>>
         /\ KeepSocket(s, "open", sockErred)
    ELSE /\ open' = TRUE
         /\ disconnectReason' = Undefined
         /\ Invoke("connect")
         /\ reconnectTries' = 0
         /\ UNCHANGED ws
         /\ KeepSocket(s, "open", sockErred)
OnOpen(s) ==
    IF ~IsCurrent(s)
    THEN /\ UNCHANGED <<open, disconnectReason, reconnectTries, ws, calls>>
         /\ KeepSocket(s, "open", sockErred)
    ELSE /\ open' = TRUE
         /\ disconnectReason' = Undefined
         /\ IF reconnectTries = 0 THEN Invoke("connect") ELSE UNCHANGED calls
         /\ reconnectTries' = 0
         /\ UNCHANGED ws
         /\ KeepSocket(s, "open", sockErred)

\* `this.reconnect && this.reconnectTries++ < 5`: the counter is incremented
\* only when this.reconnect is set, whatever the comparison gives
RetryAllowedMutSix == reconnect /\ reconnectTries < MaxTries + 1
RetryAllowed == reconnect /\ reconnectTries < MaxTries
TriesAfterTest == IF reconnect THEN reconnectTries + 1 ELSE reconnectTries

\* ws.onerror
OnErrorMutNoFailure(s) ==
    IF ws # s
    THEN /\ UNCHANGED <<open, disconnectReason, reconnectTries, ws, calls>>
         /\ KeepSocket(s, sockPhase, TRUE)
    ELSE IF ~open
         THEN IF reconnectTries # 0
              THEN IF RetryAllowed
                   THEN /\ reconnectTries' = TriesAfterTest
                        /\ InitWebsocket
                        /\ UNCHANGED <<disconnectReason, calls>>
                   ELSE /\ reconnectTries' = TriesAfterTest
                        /\ InvokeDisconnect(OrEmpty(disconnectReason))
                        /\ UNCHANGED <<open, disconnectReason, ws>>
                        /\ KeepSocket(s, sockPhase, TRUE)
              ELSE /\ InvokeDisconnect(OrEmpty(disconnectReason))
                   /\ UNCHANGED <<open, disconnectReason, reconnectTries, ws>>
                   /\ KeepSocket(s, sockPhase, TRUE)
         ELSE /\ UNCHANGED <<open, disconnectReason, reconnectTries, ws, calls>>
              /\ KeepSocket(s, sockPhase, TRUE)
OnErrorMutEmptyReason(s) ==
    IF ws # s
    THEN /\ UNCHANGED <<open, disconnectReason, reconnectTries, ws, calls>>
         /\ KeepSocket(s, sockPhase, TRUE)
    ELSE IF ~open
         THEN IF reconnectTries # 0
              THEN IF RetryAllowed
                   THEN /\ reconnectTries' = TriesAfterTest
                        /\ InitWebsocket
                        /\ UNCHANGED <<disconnectReason, calls>>
                   ELSE /\ reconnectTries' = TriesAfterTest
                        /\ InvokeDisconnect("")
                        /\ UNCHANGED <<open, disconnectReason, ws>>
                        /\ KeepSocket(s, sockPhase, TRUE)
              ELSE /\ Invoke("failure")
                   /\ UNCHANGED <<open, disconnectReason, reconnectTries, ws>>
                   /\ KeepSocket(s, sockPhase, TRUE)
         ELSE /\ UNCHANGED <<open, disconnectReason, reconnectTries, ws, calls>>
              /\ KeepSocket(s, sockPhase, TRUE)
OnError(s) ==
    IF ~IsCurrent(s)
    THEN /\ UNCHANGED <<open, disconnectReason, reconnectTries, ws, calls>>
         /\ KeepSocket(s, sockPhase, TRUE)
    ELSE IF ~open
         THEN IF reconnectTries # 0
              THEN IF RetryAllowed
                   THEN /\ reconnectTries' = TriesAfterTest
                        /\ InitWebsocket
                        /\ UNCHANGED <<disconnectReason, calls>>
                   ELSE /\ reconnectTries' = TriesAfterTest
                        /\ InvokeDisconnect(OrEmpty(disconnectReason))
                        /\ UNCHANGED <<open, disconnectReason, ws>>
                        /\ KeepSocket(s, sockPhase, TRUE)
              ELSE /\ Invoke("failure")
                   /\ UNCHANGED <<open, disconnectReason, reconnectTries, ws>>
                   /\ KeepSocket(s, sockPhase, TRUE)
         ELSE /\ UNCHANGED <<open, disconnectReason, reconnectTries, ws, calls>>
              /\ KeepSocket(s, sockPhase, TRUE)

\* ws.onclose
OnCloseMutNoReason(s, reason) ==
    IF ws # s
    THEN /\ UNCHANGED <<open, disconnectReason, reconnectTries, ws, calls>>
         /\ KeepSocket(s, "closed", sockErred)
    ELSE IF RetryAllowed
         THEN /\ reconnectTries' = TriesAfterTest
              /\ InitWebsocket
              /\ UNCHANGED <<disconnectReason, calls>>
         ELSE /\ reconnectTries' = TriesAfterTest
              /\ open' = FALSE
              /\ InvokeDisconnect(OrEmpty(reason))
              /\ UNCHANGED <<disconnectReason, ws>>
              /\ KeepSocket(s, "closed", sockErred)
OnClose(s, reason) ==
    IF ~IsCurrent(s)
    THEN /\ UNCHANGED <<open, disconnectReason, reconnectTries, ws, calls>>
         /\ KeepSocket(s, "closed", sockErred)
    ELSE IF RetryAllowed
         THEN /\ reconnectTries' = TriesAfterTest
              /\ disconnectReason' = reason
              /\ InitWebsocket
              /\ UNCHANGED calls
         ELSE /\ reconnectTries' = TriesAfterTest
              /\ open' = FALSE
              /\ InvokeDisconnect(OrEmpty(reason))
              /\ UNCHANGED <<disconnectReason, ws>>
              /\ KeepSocket(s, "closed", sockErred)

\* the promise of request i is resolved; settling a settled promise does nothing
Resolve(i) ==
    requests' = [requests EXCEPT ![i].status =
                    IF @ = "waiting" THEN "resolved" ELSE @]

OnMessageMutFallthrough(s, frame) ==
    IF ws # s
    THEN UNCHANGED <<pending, requests, delivered, thrown, ignored>>
    ELSE IF frame.kind = "text" /\ "message" \in subs
         THEN IF frame.id # NoId /\ frame.id \in DOMAIN pending
              THEN /\ pending' = Remove(pending, frame.id)
                   /\ Resolve(pending[frame.id])
                   /\ delivered' = Append(delivered, frame.id)
                   /\ UNCHANGED <<thrown, ignored>>
              ELSE /\ delivered' = Append(delivered, frame.id)
                   /\ UNCHANGED <<pending, requests, thrown, ignored>>
         ELSE IF frame.kind = "garbage" /\ "message" \in subs
              THEN /\ thrown' = TRUE
                   /\ UNCHANGED <<pending, requests, delivered, ignored>>
              ELSE /\ ignored' = IF frame.kind = "text" THEN ignored + 1 ELSE ignored
                   /\ UNCHANGED <<pending, requests, delivered, thrown>>

OnMessageMutPrepend(s, frame) ==
    IF ws # s
    THEN UNCHANGED <<pending, requests, delivered, thrown, ignored>>
    ELSE IF frame.kind = "text" /\ "message" \in subs
         THEN IF frame.id # NoId /\ frame.id \in DOMAIN pending
              THEN /\ pending' = Remove(pending, frame.id)
                   /\ Resolve(pending[frame.id])
                   /\ UNCHANGED <<delivered, thrown, ignored>>
              ELSE /\ delivered' = <<frame.id>> \o delivered
                   /\ UNCHANGED <<pending, requests, thrown, ignored>>
         ELSE IF frame.kind = "garbage" /\ "message" \in subs
              THEN /\ thrown' = TRUE
                   /\ UNCHANGED <<pending, requests, delivered, ignored>>
              ELSE /\ ignored' = IF frame.kind = "text" THEN ignored + 1 ELSE ignored
                   /\ UNCHANGED <<pending, requests, delivered, thrown>>

\* ws.onmessage; frame.id is the numeric id of the parsed message, or NoId
OnMessage(s, frame) ==
    IF ~IsCurrent(s)
    THEN UNCHANGED <<pending, requests, delivered, thrown, ignored>>
    ELSE IF frame.kind = "text" /\ "message" \in subs
         THEN IF frame.id # NoId /\ frame.id \in DOMAIN pending
              THEN /\ pending' = Remove(pending, frame.id)
                   /\ Resolve(pending[frame.id])
                   /\ UNCHANGED <<delivered, thrown, ignored>>
              ELSE /\ delivered' = Append(delivered, frame.id)
                   /\ UNCHANGED <<pending, requests, thrown, ignored>>
         ELSE IF frame.kind = "garbage" /\ "message" \in subs
              THEN /\ thrown' = TRUE
                   /\ UNCHANGED <<pending, requests, delivered, ignored>>
              ELSE /\ ignored' = IF frame.kind = "text" THEN ignored + 1 ELSE ignored
                   /\ UNCHANGED <<pending, requests, delivered, thrown>>

\* ------------------------------------------------- delivery of socket events
\* The socket that is this.ws follows the WebSocket lifecycle (open once, error
\* once, close last, messages while open); a superseded socket may deliver any
\* event at any time; such an event changes nothing, so only the first one of
\* a run is explored.
CanDeliver(s, kind) ==
    /\ s \in 1..nSockets
    /\ IF s = ws
       THEN CASE kind = "open" -> sockPhase = "connecting"
              [] kind = "error" -> sockPhase # "closed" /\ ~sockErred
              [] kind = "close" -> sockPhase # "closed"
              [] kind = "message" -> sockPhase = "open" /\ FramesSoFar < FrameLimit
       ELSE ~staleSeen

Observe(s, kind) ==
    IF s = ws
    THEN /\ onlyCloses' = (onlyCloses /\ kind = "close")
         /\ UNCHANGED staleSeen
    ELSE /\ staleSeen' = TRUE
         /\ UNCHANGED onlyCloses

\* evaluated after the handler: a socket was constructed, or a current socket
\* opened
Count(s, kind) ==
    sinceOpen' = IF nSockets' # nSockets THEN sinceOpen + 1
                 ELSE IF s = ws /\ kind = "open" THEN 0
                 ELSE sinceOpen

SocketOpen(s) ==
    /\ CanDeliver(s, "open")
    /\ Observe(s, "open")
    /\ OnOpen(s)
    /\ Count(s, "open")
    /\ UNCHANGED <<reconnect, pending, subs, now, requests, written, delivered,
                   thrown, ignored, destroyed, scope>>

SocketError(s) ==
    /\ CanDeliver(s, "error")
    /\ Observe(s, "error")
    /\ OnError(s)
    /\ Count(s, "error")
    /\ UNCHANGED <<reconnect, pending, subs, now, requests, written, delivered,
                   thrown, ignored, destroyed, scope>>

SocketClose(s, reason) ==
    /\ CanDeliver(s, "close")
    /\ Observe(s, "close")
    /\ OnClose(s, reason)
    /\ Count(s, "close")
    /\ UNCHANGED <<reconnect, pending, subs, now, requests, written, delivered,
                   thrown, ignored, destroyed, scope>>

SocketMessage(s, frame) ==
    /\ CanDeliver(s, "message")
    /\ Observe(s, "message")
    /\ OnMessage(s, frame)
    /\ UNCHANGED <<open, disconnectReason, reconnect, reconnectTries, ws, subs,
                   envVars, written, calls, sinceOpen, destroyed, scope>>

\* ------------------------------------------------------------ caller's API
SendMutNoOpenCheck(message, resolve) ==
    /\ SendsSoFar < SendLimit
    /\ LET id == IF resolve THEN DateNow ELSE NoId IN
       IF ~ParseClientOk(message)
       THEN /\ thrown' = TRUE
            /\ UNCHANGED <<pending, written, requests>>
       ELSE /\ written' = Append(written, [sock |-> ws, id |-> id])
            /\ thrown' = thrown
            /\ IF resolve
               THEN /\ requests' = Append(requests,
                           [id |-> id, deadline |-> now + TimeoutMs,
                            status |-> "waiting", timer |-> "armed"])
                    /\ pending' = Put(pending, id, Len(requests) + 1)
               ELSE UNCHANGED <<pending, requests>>
    /\ UNCHANGED <<open, disconnectReason, reconnect, reconnectTries, ws, subs,
                   envVars, calls, delivered, ignored, staleSeen, sinceOpen,
                   onlyCloses, destroyed, scope>>

\* send(message) and send(message, true), lines 266-298
Send(message, resolve) ==
    /\ SendsSoFar < SendLimit
    /\ IF ~open \/ ws = NoSocket
       THEN /\ requests' = IF resolve
                           THEN Append(requests, [id |-> NoId, deadline |-> NoId,
                                                  status |-> "rejected",
                                                  timer |-> "none"])
                           ELSE requests
            /\ UNCHANGED <<pending, written, thrown>>
       ELSE LET id == IF resolve THEN DateNow ELSE NoId IN
            IF ~ParseClientOk(message)
            THEN /\ thrown' = TRUE
                 /\ UNCHANGED <<pending, written, requests>>
            ELSE /\ written' = Append(written, [sock |-> ws, id |-> id])
                 /\ thrown' = thrown
                 /\ IF resolve
                    THEN /\ requests' = Append(requests,
                                [id |-> id, deadline |-> now + TimeoutMs,
                                 status |-> "waiting", timer |-> "armed"])
                         /\ pending' = Put(pending, id, Len(requests) + 1)
                    ELSE UNCHANGED <<pending, requests>>
    /\ UNCHANGED <<open, disconnectReason, reconnect, reconnectTries, ws, subs,
                   envVars, calls, delivered, ignored, staleSeen, sinceOpen,
                   onlyCloses, destroyed, scope>>

TimerFireMutNoDelete(i) ==
    /\ i \in 1..Len(requests)
    /\ requests[i].timer = "armed"
    /\ now >= requests[i].deadline
    /\ requests' = [requests EXCEPT ![i].timer = "fired",
                       ![i].status = IF @ = "waiting" THEN "timeout" ELSE @]
    /\ UNCHANGED <<open, disconnectReason, reconnect, reconnectTries, ws, subs,
                   envVars, written, calls, delivered, thrown, ignored, staleSeen,
                   sinceOpen, onlyCloses, destroyed, scope, pending>>

\* the setTimeout callback of request i, lines 291-294
TimerFire(i) ==
    /\ i \in 1..Len(requests)
    /\ requests[i].timer = "armed"
    /\ now >= requests[i].deadline
    /\ pending' = Remove(pending, requests[i].id)
    /\ requests' = [requests EXCEPT ![i].timer = "fired",
                       ![i].status = IF @ = "waiting" THEN "timeout" ELSE @]
    /\ UNCHANGED <<open, disconnectReason, reconnect, reconnectTries, ws, subs,
                   envVars, written, calls, delivered, thrown, ignored, staleSeen,
                   sinceOpen, onlyCloses, destroyed, scope>>

\* autoReconnect(), in a run that may construct further sockets
AutoReconnect ==
    /\ ~reconnect
    /\ SocketLimit > 1
    /\ reconnect' = TRUE
    /\ UNCHANGED <<open, disconnectReason, reconnectTries, pending, ws, subs,
                   envVars, obsVars>>

\* connect(cb), failure(cb), disconnect(cb), message(cb)
Subscribe(name) ==
    /\ name \in ScopeSubscribers
    /\ name \notin subs
    /\ subs' = subs \cup {name}
    /\ UNCHANGED <<open, disconnectReason, reconnect, reconnectTries, pending, ws,
                   envVars, obsVars>>

DestroyMutKeepWs ==
    /\ ~destroyed
    /\ closeCalled' = IF ws # NoSocket THEN closeCalled \cup {ws} ELSE closeCalled
    /\ open' = FALSE
    /\ destroyed' = TRUE
    /\ UNCHANGED <<disconnectReason, reconnect, reconnectTries, pending, subs, ws,
                   nSockets, sockPhase, sockErred, now, requests, written, calls,
                   delivered, thrown, ignored, staleSeen, sinceOpen, onlyCloses,
                   scope>>

DestroyMutClearPending ==
    /\ ~destroyed
    /\ closeCalled' = IF ws # NoSocket THEN closeCalled \cup {ws} ELSE closeCalled
    /\ open' = FALSE
    /\ ws' = NoSocket
    /\ destroyed' = TRUE
    /\ pending' = <<>>
    /\ UNCHANGED <<disconnectReason, reconnect, reconnectTries, subs,
                   nSockets, sockPhase, sockErred, now, requests, written, calls,
                   delivered, thrown, ignored, staleSeen, sinceOpen, onlyCloses,
                   scope>>

\* destroy(), lines 325-330
Destroy ==
    /\ ~destroyed
    /\ closeCalled' = IF ws # NoSocket THEN closeCalled \cup {ws} ELSE closeCalled
    /\ open' = FALSE
    /\ ws' = NoSocket
    /\ destroyed' = TRUE
    /\ UNCHANGED <<disconnectReason, reconnect, reconnectTries, pending, subs,
                   nSockets, sockPhase, sockErred, now, requests, written, calls,
                   delivered, thrown, ignored, staleSeen, sinceOpen, onlyCloses,
                   scope>>

\* time passes: the clock advances by one timeout window
TicksTaken == now \div TimeoutMs
Tick ==
    /\ TicksTaken < TickLimit
    /\ now' = now + TimeoutMs
    /\ UNCHANGED <<chanVars, nSockets, sockPhase, sockErred, closeCalled, obsVars>>

\* ------------------------------------------------------------ specification
\* the state after `new WebsocketWrapper(...)`: the constructor has called
\* initWebsocket() once
InitWs ==
    /\ open = FALSE
    /\ disconnectReason = Undefined
    /\ reconnect = FALSE
    /\ reconnectTries = 0
    /\ pending = <<>>
    /\ ws = 1
    /\ subs = {}
    /\ nSockets = 1
    /\ sockPhase = "connecting"
    /\ sockErred = FALSE
    /\ closeCalled = {}
    /\ now = 0
    /\ requests = <<>>
    /\ written = <<>>
    /\ calls = [connect |-> 0, failure |-> 0, disconnect |-> 0, reason |-> Undefined]
    /\ delivered = <<>>
    /\ thrown = FALSE
    /\ ignored = 0
    /\ staleSeen = FALSE
    /\ sinceOpen = 0
    /\ onlyCloses = TRUE
    /\ scope \in Scopes
    /\ destroyed = FALSE

\* inbound frames: a text frame whose parsed message carries no numeric id or
\* the id of some request, a non-text frame, a text frame the codec rejects
ReplyIds == {NoId} \cup {requests[i].id : i \in 1..Len(requests)}
Frames ==
    [kind : {"text"}, id : ReplyIds] \cup [kind : {"binary", "garbage"}, id : {NoId}]

ChannelStep ==
    \/ \E s \in 1..nSockets : SocketOpen(s)
    \/ \E s \in 1..nSockets : SocketError(s)
    \/ \E s \in 1..nSockets, r \in ScopeReasons : SocketClose(s, r)
    \/ \E s \in 1..nSockets, f \in Frames : SocketMessage(s, f)
    \/ \E m \in ClientMessages, r \in BOOLEAN : Send(m, r)
    \/ \E i \in 1..Len(requests) : TimerFire(i)
    \/ AutoReconnect
    \/ \E n \in Subscribers : Subscribe(n)
    \/ Destroy
    \/ Tick

\* ========================================================== EventSauce
\* Text is a sequence of one-character strings.
NL == "\n"
Separator == <<":", " ">>
Terminator == <<NL, NL>>
Comment == <<>>
DataField == <<"d", "a", "t", "a">>
EventField == <<"e", "v", "e", "n", "t">>
IdField == <<"i", "d">>
RetryField == <<"r", "e", "t", "r", "y">>
\* const fields = ['data', 'event', 'id', 'retry']
Fields == {DataField, EventField, IdField, RetryField}
MessageType == <<"m", "e", "s", "s", "a", "g", "e">>

\* readonly CONNECTING = 0; OPEN = 1; CLOSED = 2
CONNECTING == 0
OPEN == 1
CLOSED == 2

\* String.prototype.indexOf: the 0-based place of the first occurrence, or -1
IndexOf(text, pattern) ==
    LET hits == {i \in 0..(Len(text) - Len(pattern)) :
                    SubSeq(text, i + 1, i + Len(pattern)) = pattern}
    IN IF hits = {} THEN -1 ELSE CHOOSE i \in hits : \A j \in hits : i <= j

\* String.prototype.slice(from, to) and slice(from), for 0 <= from <= to
Slice(text, from, to) == SubSeq(text, from + 1, to)
SliceFrom(text, from) == SubSeq(text, from + 1, Len(text))

\* String.prototype.split('\n'): the empty text gives one empty line
RECURSIVE Split(_)
Split(text) ==
    LET i == IndexOf(text, <<NL>>)
    IN IF i = -1 THEN <<text>>
       ELSE <<Slice(text, 0, i)>> \o Split(SliceFrom(text, i + 1))

\* `double ${typeof label === 'string' ? label : 'comment'}`
DoubleOf(label) ==
    CASE label = EventField -> "double event"
      [] label = IdField -> "double id"
      [] label = RetryField -> "double retry"
      [] OTHER -> "double comment"

\* lines 125-132: a line's value is recorded under its label; result maps the
\* labels seen so far to their values
AccumulateMutOverwrite(result, label, data) ==
    [err |-> "none", label |-> label, result |-> Put(result, label, data)]
Accumulate(result, label, data) ==
    IF label \in DOMAIN result
    THEN IF label # DataField
         THEN [err |-> DoubleOf(label), label |-> label, result |-> result]
         ELSE [err |-> "none", label |-> label,
               result |-> Put(result, label, result[label] \o <<NL>> \o data)]
    ELSE [err |-> "none", label |-> label, result |-> Put(result, label, data)]

\* the loop over packet.split('\n'), lines 111-133, from line k on
RECURSIVE ParseLines(_, _, _)
ParseLines(lines, k, result) ==
    IF k > Len(lines)
    THEN [err |-> "none", label |-> Comment, result |-> result]
    ELSE LET line == lines[k]
             index == IndexOf(line, Separator)
             label == Slice(line, 0, index)
             data == SliceFrom(line, index + 2)
             next == Accumulate(result, label, data)
         IN IF index = -1
            THEN [err |-> "no colon", label |-> Comment, result |-> result]
            ELSE IF label # Comment /\ label \notin Fields
            THEN [err |-> "invalid label", label |-> label, result |-> result]
            ELSE IF next.err # "none" THEN next
            ELSE ParseLines(lines, k + 1, next.result)

\* lines 110-141: the fields of a packet, or the rejection it causes
ParsePacketMutAllowBoth(packet) ==
    LET parsed == ParseLines(Split(packet), 1, <<>>)
        has(l) == l \in DOMAIN parsed.result
    IN IF parsed.err # "none" THEN parsed
       ELSE IF ~has(Comment) /\ ~has(DataField)
       THEN [parsed EXCEPT !.err = "neither data nor comment"]
       ELSE parsed
ParsePacket(packet) ==
    LET parsed == ParseLines(Split(packet), 1, <<>>)
        has(l) == l \in DOMAIN parsed.result
    IN IF parsed.err # "none" THEN parsed
       ELSE IF ~has(Comment) /\ ~has(DataField)
       THEN [parsed EXCEPT !.err = "neither data nor comment"]
       ELSE IF has(Comment) /\ has(DataField)
       THEN [parsed EXCEPT !.err = "comment and data"]
       ELSE parsed

\* `+result.retry` and Number.isSafeInteger, for an optional sign followed by
\* digits and an optional fraction (of at most 9 or at least 17 significant
\* digits); any other text is NaN
Digits == {"0", "1", "2", "3", "4", "5", "6", "7", "8", "9"}
DigitValue(c) ==
    CASE c = "0" -> 0 [] c = "1" -> 1 [] c = "2" -> 2 [] c = "3" -> 3 [] c = "4" -> 4
      [] c = "5" -> 5 [] c = "6" -> 6 [] c = "7" -> 7 [] c = "8" -> 8 [] c = "9" -> 9
IsDigits(text) == \A i \in 1..Len(text) : text[i] \in Digits
RECURSIVE StripZeros(_)
StripZeros(text) ==
    IF Len(text) > 1 /\ text[1] = "0" THEN StripZeros(Tail(text)) ELSE text
RECURSIVE DigitsValue(_)
DigitsValue(text) ==
    IF text = <<>> THEN 0
    ELSE 10 * DigitsValue(SubSeq(text, 1, Len(text) - 1)) + DigitValue(text[Len(text)])
ToSafeInteger(text) ==
    LET signed == text # <<>> /\ text[1] \in {"-", "+"}
        unsigned == IF signed THEN Tail(text) ELSE text
        dot == IndexOf(unsigned, <<".">>)
        whole == IF dot = -1 THEN unsigned ELSE Slice(unsigned, 0, dot)
        fraction == IF dot = -1 THEN <<>> ELSE SliceFrom(unsigned, dot + 1)
        digits == StripZeros(whole)
        numeric == /\ IsDigits(whole) /\ IsDigits(fraction)
                   /\ Len(whole) + Len(fraction) > 0
        integral == \A i \in 1..Len(fraction) : fraction[i] = "0"
        value == DigitsValue(digits)
    IN IF numeric /\ integral /\ Len(digits) <= 9
       THEN [safe |-> TRUE,
             value |-> IF signed /\ text[1] = "-" THEN 0 - value ELSE value]
       ELSE [safe |-> FALSE, value |-> 0]

Event(kind, type, data, id, cause) ==
    [kind |-> kind, type |-> type, data |-> data, lastEventId |-> id, cause |-> cause]

\* the parser as a value, so that the read loop can be replayed on other chunks
Parser ==
    [readyState |-> readyState, reconnectAfter |-> reconnectAfter,
     lastEventId |-> lastEventId, buffer |-> buffer, pc |-> pc,
     throws |-> handlerThrows, emitted |-> emitted, logged |-> logged]

\* `try { this.onX?.call(this, ev); } catch (e) { console.error(e); }`
DispatchMutUncaught(p, ev) ==
    IF p.throws /\ ev.kind = "message"
    THEN [p EXCEPT !.readyState = CLOSED, !.pc = "failed",
                   !.emitted = Append(Append(@, ev),
                                      Event("error", <<>>, <<>>, <<>>, "handler")),
                   !.logged = @ + 1]
    ELSE [p EXCEPT !.emitted = Append(@, ev),
                   !.logged = IF p.throws THEN @ + 1 ELSE @]
Dispatch(p, ev) ==
    [p EXCEPT !.emitted = Append(@, ev),
              !.logged = IF p.throws THEN @ + 1 ELSE @]

\* the .catch handler, lines 173-182
CatchMutKeepReading(p, cause) ==
    Dispatch([p EXCEPT !.readyState = CLOSED],
             Event("error", <<>>, <<>>, <<>>, cause))
Catch(p, cause) ==
    Dispatch([p EXCEPT !.readyState = CLOSED, !.pc = "failed"],
             Event("error", <<>>, <<>>, <<>>, cause))

\* lines 145-166: a packet with data updates the stream state and is emitted
EmitMutDefaultType(p, result) ==
    LET has(l) == l \in DOMAIN result
        retry == IF has(RetryField) THEN result[RetryField] ELSE <<>>
        id == IF has(IdField) THEN result[IdField] ELSE <<>>
        n == ToSafeInteger(retry)
    IN Dispatch([p EXCEPT
                    !.reconnectAfter = IF retry # <<>> /\ n.safe THEN n.value ELSE @,
                    !.lastEventId = IF id # <<>> THEN id ELSE @],
                Event("message", MessageType, result[DataField], id, ""))
Emit(p, result) ==
    LET has(l) == l \in DOMAIN result
        retry == IF has(RetryField) THEN result[RetryField] ELSE <<>>
        id == IF has(IdField) THEN result[IdField] ELSE <<>>
        type == IF has(EventField) /\ result[EventField] # <<>>
                THEN result[EventField] ELSE MessageType
        n == ToSafeInteger(retry)
    IN Dispatch([p EXCEPT
                    !.reconnectAfter = IF retry # <<>> /\ n.safe THEN n.value ELSE @,
                    !.lastEventId = IF id # <<>> THEN id ELSE @],
                Event("message", type, result[DataField], id, ""))

\* one iteration of the read loop after reader.read() gave a chunk, lines 102-167:
\* at most one packet is taken from the buffer
FeedMutSkipBad(p, chunk) ==
    LET text == p.buffer \o chunk
        index == IndexOf(text, Terminator)
    IN IF index = -1
       THEN [p EXCEPT !.buffer = text]
       ELSE LET parsed == ParsePacket(Slice(text, 0, index))
                q == [p EXCEPT !.buffer = SliceFrom(text, index + 2)]
            IN IF parsed.err # "none" THEN q
               ELSE IF Comment \in DOMAIN parsed.result THEN q
               ELSE Emit(q, parsed.result)
FeedMutCommentState(p, chunk) ==
    LET text == p.buffer \o chunk
        index == IndexOf(text, Terminator)
    IN IF index = -1
       THEN [p EXCEPT !.buffer = text]
       ELSE LET parsed == ParsePacket(Slice(text, 0, index))
                q == [p EXCEPT !.buffer = SliceFrom(text, index + 2)]
            IN IF parsed.err # "none" THEN Catch(q, parsed.err)
               ELSE IF Comment \in DOMAIN parsed.result
               THEN [q EXCEPT !.lastEventId =
                        IF IdField \in DOMAIN parsed.result
                        THEN parsed.result[IdField] ELSE @]
               ELSE Emit(q, parsed.result)
Feed(p, chunk) ==
    LET text == p.buffer \o chunk
        index == IndexOf(text, Terminator)
    IN IF index = -1
       THEN [p EXCEPT !.buffer = text]
       ELSE LET parsed == ParsePacket(Slice(text, 0, index))
                q == [p EXCEPT !.buffer = SliceFrom(text, index + 2)]
            IN IF parsed.err # "none" THEN Catch(q, parsed.err)
               ELSE IF Comment \in DOMAIN parsed.result THEN q
               ELSE Emit(q, parsed.result)

\* reader.read() gave done: the loop ends and the promise chain is fulfilled
Finish(p) == [p EXCEPT !.pc = "ended"]

\* the read loop replayed from parser p on a sequence of chunks, to its end
RECURSIVE Replay(_, _)
Replay(p, chunks) ==
    IF p.pc # "reading" THEN p
    ELSE IF chunks = <<>> THEN Finish(p)
    ELSE Replay(Feed(p, Head(chunks)), Tail(chunks))

\* ---- response bodies
Line(label, value) == label \o Separator \o value
Lines2(a, b) == a \o <<NL>> \o b
PacketA == Line(DataField, <<"a">>)
PacketB == Line(DataField, <<"b">>)
PacketAB == Lines2(PacketA, PacketB)
PacketComment == Line(Comment, <<"k">>)
PacketEvent == Lines2(PacketA, Line(EventField, <<"p">>))
PacketId == Lines2(PacketB, Line(IdField, <<"1">>))
PacketDoubleId == Lines2(Lines2(PacketAB, Line(IdField, <<"1">>)), Line(IdField, <<"2">>))
PacketRetry == Lines2(PacketA, Line(RetryField, <<"5">>))
PacketBadLabel == Line(<<"f", "o", "o">>, <<"a">>)
PacketNoData == Line(IdField, <<"1">>)
PacketBoth == Lines2(PacketComment, PacketA)
PacketNoColon == DataField
PacketDoubleEvent == Lines2(PacketEvent, Line(EventField, <<"q">>))
PacketDoubleRetry == Lines2(PacketRetry, Line(RetryField, <<"6">>))
PacketDoubleComment == Lines2(PacketComment, PacketComment)
PacketCommentFields ==
    Lines2(Lines2(PacketComment, Line(IdField, <<"2">>)), Line(RetryField, <<"9">>))
PacketRetryNegative == Lines2(PacketA, Line(RetryField, <<"-", "5">>))
PacketRetryFraction == Lines2(PacketA, Line(RetryField, <<"1", ".", "5">>))
PacketRetryText == Lines2(PacketA, Line(RetryField, <<"x">>))
PacketEmptyFields == Lines2(Lines2(PacketA, Line(EventField, <<>>)), Line(RetryField, <<>>))
PacketEmptyId == Lines2(PacketA, Line(IdField, <<>>))
PacketPool ==
    {PacketA, PacketB, PacketAB, PacketComment, PacketEvent, PacketId, PacketDoubleId,
     PacketRetry, PacketBadLabel, PacketNoData, PacketBoth, PacketNoColon,
     PacketDoubleEvent, PacketDoubleRetry, PacketDoubleComment, PacketCommentFields,
     PacketRetryNegative, PacketRetryFraction, PacketRetryText, PacketEmptyFields}

\* packets that follow the first packet of a body, and those that follow the
\* second
Followers == {PacketA, PacketComment, PacketBadLabel, PacketDoubleId, PacketEmptyId}
Trailers == {PacketA, PacketBadLabel}

\* the bodies of n packets, each followed by the packet terminator; the first
\* packet is one of pool, the second a follower, the later ones trailers
RECURSIVE BodiesOf(_, _)
BodiesOf(n, pool) ==
    IF n = 0 THEN {<<>>}
    ELSE {b \o pk \o Terminator :
            b \in BodiesOf(n - 1, pool),
            pk \in (IF n = 1 THEN pool ELSE IF n = 2 THEN Followers ELSE Trailers)}
Bodies == UNION {BodiesOf(n, PacketPool) : n \in 1..MaxPackets}
\* the bodies sent to subscribers that throw
PlainBodies == UNION {BodiesOf(n, Followers) : n \in 1..MaxPackets}

\* a body cut into its packets, each with its terminator
RECURSIVE PacketChunks(_)
PacketChunks(text) ==
    LET index == IndexOf(text, Terminator)
    IN IF index = -1
       THEN IF text = <<>> THEN <<>> ELSE <<text>>
       ELSE <<Slice(text, 0, index + 2)>> \o PacketChunks(SliceFrom(text, index + 2))

\* how options.fetch(request) settles: rejected, or fulfilled with a response
\* of some status, with or without a body
Statuses == {199, 200, 299, 300}
Rejection == [settled |-> "rejected", status |-> 0, hasBody |-> FALSE]
Responses ==
    {Rejection} \cup
    {[settled |-> "fulfilled", status |-> s, hasBody |-> b] :
        s \in Statuses, b \in BOOLEAN}
Ok == [settled |-> "fulfilled", status |-> 200, hasBody |-> TRUE]
\* `res.body === null || res.status < 200 || res.status >= 300`
RefusedMutRedirects(res) == ~res.hasBody \/ res.status < 200 \/ res.status >= 400
Refused(res) == ~res.hasBody \/ res.status < 200 \/ res.status >= 300

\* ---- actions of the parser
SetParser(p) ==
    /\ readyState' = p.readyState
    /\ reconnectAfter' = p.reconnectAfter
    /\ lastEventId' = p.lastEventId
    /\ buffer' = p.buffer
    /\ pc' = p.pc
    /\ emitted' = p.emitted
    /\ logged' = p.logged

\* options.fetch(request) settles, lines 75-95 and 173-182
Respond ==
    /\ pc = "fetching"
    /\ SetParser(
          IF response.settled = "rejected" THEN Catch(Parser, "rejection")
          ELSE IF Refused(response)
          THEN Dispatch([Parser EXCEPT !.readyState = CLOSED, !.pc = "failed"],
                        Event("error", <<>>, <<>>, <<>>, "response"))
          ELSE Dispatch([Parser EXCEPT !.readyState = OPEN, !.pc = "reading"],
                        Event("open", <<>>, <<>>, <<>>, "")))
    /\ UNCHANGED <<response, body, unread, handlerThrows, wsVars>>

\* reader.read() gives the next n characters of the body
ReadChunk(n) ==
    /\ pc = "reading"
    /\ n \in 1..Len(unread)
    /\ SetParser(Feed(Parser, SubSeq(unread, 1, n)))
    /\ unread' = SliceFrom(unread, n)
    /\ UNCHANGED <<response, body, handlerThrows, wsVars>>

\* reader.read() gives done
ReadDone ==
    /\ pc = "reading"
    /\ unread = <<>>
    /\ SetParser(Finish(Parser))
    /\ UNCHANGED <<response, body, unread, handlerThrows, wsVars>>

\* the state after `new EventSauce(request)`, lines 58-64
InitParser ==
    /\ readyState = CONNECTING
    /\ reconnectAfter = 0
    /\ lastEventId = <<>>
    /\ buffer = <<>>
    /\ pc = "fetching"
    /\ emitted = <<>>
    /\ logged = 0

InitSse ==
    /\ InitParser
    /\ response \in Responses
    /\ handlerThrows \in BOOLEAN
    /\ body \in (IF Refused(response) THEN {<<>>}
                 ELSE IF handlerThrows THEN PlainBodies ELSE Bodies)
    /\ unread = body

ParserStep ==
    \/ Respond
    \/ \E n \in 1..Len(unread) : ReadChunk(n)
    \/ ReadDone

\* ================================================================== SSE
\* the type of an emitted message event, and whether its data passes
\* JSON.parse and the caller's schema
EventTypes == {"message", "ping"}
Payloads == {"valid", "invalid"}

Handled(s, kind) == Append(received, [stream |-> s, kind |-> kind])

\* stream s calls its onopen, lines 197-199
StreamOpen(s) ==
    /\ streamState[s] = CONNECTING
    /\ streamState' = [streamState EXCEPT ![s] = OPEN]
    /\ sseOpen' = IF s \in wired THEN TRUE ELSE sseOpen
    /\ UNCHANGED <<sse, messageHandler, closeHandler, nStreams, wired, received,
                   reconnects, streamMessages, dropped>>

\* stream s calls its onerror, lines 200-203
StreamError(s) ==
    /\ streamState[s] \in {CONNECTING, OPEN}
    /\ streamState' = [streamState EXCEPT ![s] = CLOSED]
    /\ sseOpen' = IF s \in wired THEN FALSE ELSE sseOpen
    /\ received' = IF s \in wired /\ closeHandler THEN Handled(s, "close")
                   ELSE received
    /\ UNCHANGED <<sse, messageHandler, closeHandler, nStreams, wired, reconnects,
                   streamMessages, dropped>>

\* stream s calls its onmessage, lines 204-207 and 211-213; a handler that
\* throws is caught by the stream
StreamMessageMutAnyType(s, type, payload) ==
    /\ streamState[s] = OPEN
    /\ streamMessages < MaxStreamMessages
    /\ streamMessages' = streamMessages + 1
    /\ received' = IF s \in wired /\ messageHandler /\ payload = "valid"
                   THEN Handled(s, "message")
                   ELSE received
    /\ dropped' = IF s \in wired /\ type # "message" THEN dropped + 1 ELSE dropped
    /\ UNCHANGED <<sseOpen, sse, messageHandler, closeHandler, nStreams, streamState,
                   wired, reconnects>>
StreamMessage(s, type, payload) ==
    /\ streamState[s] = OPEN
    /\ streamMessages < MaxStreamMessages
    /\ streamMessages' = streamMessages + 1
    /\ received' = IF /\ s \in wired
                      /\ type = "message"
                      /\ messageHandler
                      /\ payload = "valid"
                   THEN Handled(s, "message")
                   ELSE received
    /\ dropped' = IF s \in wired /\ type # "message" THEN dropped + 1 ELSE dropped
    /\ UNCHANGED <<sseOpen, sse, messageHandler, closeHandler, nStreams, streamState,
                   wired, reconnects>>

\* SSE.onMessage(handler), lines 210-214
SseOnMessage ==
    /\ messageHandler' = TRUE
    /\ UNCHANGED <<sseOpen, sse, closeHandler, nStreams, streamState, wired,
                   received, reconnects, streamMessages, dropped>>

\* SSE.onClose(handler), lines 216-220
SseOnClose ==
    /\ closeHandler' = TRUE
    /\ UNCHANGED <<sseOpen, sse, messageHandler, nStreams, streamState, wired,
                   received, reconnects, streamMessages, dropped>>

\* SSE.reconnect(), lines 222-226
SseReconnectMutAlways ==
    /\ reconnects < MaxReconnects
    /\ reconnects' = reconnects + 1
    /\ nStreams' = nStreams + 1
    /\ sse' = nStreams + 1
    /\ streamState' = Append(streamState, CONNECTING)
    /\ UNCHANGED <<sseOpen, messageHandler, closeHandler, wired, received,
                   streamMessages, dropped>>
SseReconnectMutRewire ==
    /\ reconnects < MaxReconnects
    /\ reconnects' = reconnects + 1
    /\ IF ~sseOpen
       THEN /\ nStreams' = nStreams + 1
            /\ sse' = nStreams + 1
            /\ streamState' = Append(streamState, CONNECTING)
            /\ wired' = wired \cup {nStreams + 1}
       ELSE UNCHANGED <<nStreams, sse, streamState, wired>>
    /\ UNCHANGED <<sseOpen, messageHandler, closeHandler, received, streamMessages, dropped>>
SseReconnect ==
    /\ reconnects < MaxReconnects
    /\ reconnects' = reconnects + 1
    /\ IF ~sseOpen
       THEN /\ nStreams' = nStreams + 1
            /\ sse' = nStreams + 1
            /\ streamState' = Append(streamState, CONNECTING)
       ELSE UNCHANGED <<nStreams, sse, streamState>>
    /\ UNCHANGED <<sseOpen, messageHandler, closeHandler, wired, received,
                   streamMessages, dropped>>

\* the state after `new SSE(init, parse)`, lines 187-208
InitFacade ==
    /\ sseOpen = FALSE
    /\ sse = 1
    /\ messageHandler = FALSE
    /\ closeHandler = FALSE
    /\ nStreams = 1
    /\ streamState = <<CONNECTING>>
    /\ wired = {1}
    /\ received = <<>>
    /\ reconnects = 0
    /\ streamMessages = 0
    /\ dropped = 0

FacadeStep ==
    \/ \E s \in 1..nStreams : StreamOpen(s)
    \/ \E s \in 1..nStreams : StreamError(s)
    \/ \E s \in 1..nStreams : \E type \in EventTypes : \E payload \in Payloads :
          StreamMessage(s, type, payload)
    \/ SseOnMessage
    \/ SseOnClose
    \/ SseReconnect

\* ------------------------------------------------------------ specifications
\* the duplex channel, with no stream
NoStream ==
    /\ InitParser
    /\ response = Ok
    /\ body = <<>>
    /\ unread = <<>>
    /\ handlerThrows = FALSE
InitChannel == InitWs /\ NoStream /\ InitFacade
NextWs == ChannelStep /\ UNCHANGED <<sseVars, facadeVars>>
SpecWs == InitChannel /\ [][NextWs]_vars

\* the push stream parser, with an idle channel
IdleChannel == InitWs /\ scope = "lifecycle"
InitStream == InitSse /\ IdleChannel /\ InitFacade
NextSse == ParserStep /\ UNCHANGED facadeVars
SpecSse == InitStream /\ [][NextSse]_vars

\* the push stream facade over its streams, with an idle channel
InitPush == InitFacade /\ IdleChannel /\ NoStream
NextPush == FacadeStep /\ UNCHANGED <<wsVars, sseVars>>
SpecPush == InitPush /\ [][NextPush]_vars

\* the parser right after a successful response, and the read loop replayed on
\* the body delivered one packet per chunk
Opened ==
    [readyState |-> OPEN, reconnectAfter |-> 0, lastEventId |-> <<>>, buffer |-> <<>>,
     pc |-> "reading", throws |-> handlerThrows,
     emitted |-> <<Event("open", <<>>, <<>>, <<>>, "")>>,
     logged |-> IF handlerThrows THEN 1 ELSE 0]
PacketWise == Replay(Opened, PacketChunks(body))
MessagesOf(events) == SelectSeq(events, LAMBDA e : e.kind = "message")

\* C1: when the stream has ended, the message events emitted for a valid packet
\* stream are those emitted when the same body is delivered one packet per
\* chunk, however the body was cut into chunks.
C1_ChunkInvariance ==
    (pc = "ended" /\ PacketWise.pc = "ended") =>
        MessagesOf(emitted) = MessagesOf(PacketWise.emitted)

\* ---- the packet a read takes from the buffer
\* the step is a read of a chunk, and the chunk it reads
Reads == pc = "reading" /\ unread' # unread
ReadText == SubSeq(unread, 1, Len(unread) - Len(unread'))
\* the read completes a packet, and the packet it completes
TakesPacket == Reads /\ IndexOf(buffer \o ReadText, Terminator) # -1
TakenPacket == Slice(buffer \o ReadText, 0, IndexOf(buffer \o ReadText, Terminator))
\* the failure that the protocol attaches to a packet, "none" if it is not listed
CauseIn(list, packet) ==
    LET pk == packet
        hits == {i \in 1..Len(list) : list[i].packet = pk}
    IN IF hits = {} THEN "none" ELSE list[CHOOSE i \in hits : TRUE].cause
Last(events) == events[Len(events)]
ErrorsOf(events) == SelectSeq(events, LAMBDA e : e.kind = "error")
StartsWith(text, prefix) ==
    Len(text) >= Len(prefix) /\ SubSeq(text, 1, Len(prefix)) = prefix

\* C11: when the response body is exhausted without a protocol error, the
\* parser is CLOSED and has emitted no error event.
C11_ClosedAtEnd ==
    pc = "ended" => (readyState = CLOSED /\ ErrorsOf(emitted) = <<>>)

\* C12: once the request has rejected, or was answered with a status outside
\* 200..299 or without a body, the parser is CLOSED and the only event it has
\* emitted is one error event, carrying the response or the rejection; no open
\* and no message event is ever emitted for that stream.
C12_RefusedRequest ==
    (pc # "fetching" /\ (\/ response.settled = "rejected"
                         \/ ~response.hasBody
                         \/ response.status \notin 200..299)) =>
        /\ readyState = CLOSED
        /\ Len(emitted) = 1
        /\ emitted[1].kind = "error"
        /\ emitted[1].cause =
              (IF response.settled = "rejected" THEN "rejection" ELSE "response")
C12_Witness ==
    /\ response.settled = "fulfilled" /\ response.hasBody /\ response.status = 300
    /\ pc = "failed"
    /\ readyState = CLOSED
    /\ Len(emitted) = 1

\* the packets that violate the protocol, with the failure each one causes
Violations ==
    <<[packet |-> PacketNoColon, cause |-> "no colon"],
      [packet |-> PacketBadLabel, cause |-> "invalid label"],
      [packet |-> PacketDoubleId, cause |-> "double id"],
      [packet |-> PacketNoData, cause |-> "neither data nor comment"],
      [packet |-> PacketBoth, cause |-> "comment and data"]>>

\* C13: the read that completes a packet with no colon, an invalid label, a
\* doubled label, neither data nor comment, or comment and data emits exactly
\* one error event and no message event and leaves the parser CLOSED; from
\* then on nothing is emitted and no chunk is read.
C13_ViolationsAreTerminal ==
    [][/\ TakesPacket =>
             LET packet == TakenPacket
                 cause == CauseIn(Violations, packet)
             IN cause # "none" =>
                  /\ emitted' = Append(emitted, Event("error", <<>>, <<>>, <<>>, cause))
                  /\ readyState' = CLOSED
                  /\ pc' = "failed"
       /\ pc = "failed" => UNCHANGED <<emitted, unread, readyState, pc>>]_vars
C13_Witness ==
    /\ StartsWith(body, PacketBadLabel \o Terminator \o PacketA)
    /\ pc = "failed"
    /\ readyState = CLOSED
    /\ unread # <<>>
    /\ Len(emitted) = 2
    /\ Last(emitted).kind = "error"
    /\ Last(emitted).cause = "invalid label"

\* the packets that repeat a label other than data, with the failure each causes
Doubles ==
    <<[packet |-> PacketDoubleId, cause |-> "double id"],
      [packet |-> PacketDoubleEvent, cause |-> "double event"],
      [packet |-> PacketDoubleRetry, cause |-> "double retry"],
      [packet |-> PacketDoubleComment, cause |-> "double comment"]>>

\* C14: the read that completes the packet `data: a\ndata: b` emits one message
\* event with the payload a\nb and no error; the read that completes a packet
\* with a second event, id, retry or comment line emits the error
\* "double <label>" and no message event.
C14_RepeatedLabels ==
    [][TakesPacket =>
          LET packet == TakenPacket
              cause == CauseIn(Doubles, packet)
          IN /\ packet = PacketAB =>
                   /\ emitted' = Append(emitted,
                          Event("message", MessageType, <<"a", NL, "b">>, <<>>, ""))
                   /\ pc' = "reading"
             /\ cause # "none" =>
                   /\ emitted' = Append(emitted, Event("error", <<>>, <<>>, <<>>, cause))
                   /\ pc' = "failed"]_vars
C14_Witness ==
    /\ body = PacketAB \o Terminator \o PacketDoubleId \o Terminator
    /\ Len(emitted) = 3
    /\ emitted[2].kind = "message"
    /\ emitted[2].data = <<"a", NL, "b">>
    /\ emitted[3].kind = "error"
    /\ emitted[3].cause = "double id"

\* C15: the read that completes a comment packet, with or without id and retry
\* lines, emits nothing and leaves lastEventId, the reconnect delay and the
\* ready state as they were; the parser goes on reading.
C15_CommentPacket ==
    [][(TakesPacket /\ TakenPacket \in {PacketComment, PacketCommentFields}) =>
          /\ UNCHANGED <<emitted, lastEventId, reconnectAfter, readyState>>
          /\ readyState = OPEN
          /\ pc' = "reading"]_vars
C15_Witness ==
    /\ StartsWith(body, PacketCommentFields \o Terminator \o PacketA)
    /\ Len(emitted) = 2
    /\ Last(emitted).kind = "message"
    /\ Last(emitted).data = <<"a">>
    /\ lastEventId = <<>>
    /\ reconnectAfter = 0
    /\ readyState = OPEN

\* the parser with subscribers that return normally
Quiet(p) == [p EXCEPT !.throws = FALSE]
\* two parsers agree on everything but what was written to the console
SameParser(p, q) == [p EXCEPT !.throws = FALSE, !.logged = 0] =
                    [q EXCEPT !.throws = FALSE, !.logged = 0]

\* C18: with subscribers that throw, every read leaves the parser in the state
\* it would have with subscribers that return normally, and an accepted
\* response leaves it OPEN and reading.
C18_HandlersCannotAbort ==
    [][/\ Reads =>
             LET quiet == Feed(Quiet(Parser), ReadText)
             IN SameParser(Parser', quiet)
       /\ (pc = "fetching" /\ response.settled = "fulfilled" /\ ~Refused(response)) =>
             (readyState' = OPEN /\ pc' = "reading")]_vars
C18_Witness ==
    /\ handlerThrows
    /\ body = PacketA \o Terminator \o PacketA \o Terminator
    /\ Len(MessagesOf(emitted)) = 2
    /\ logged = 3
    /\ readyState = OPEN

\* C16: after reconnect() the stream the facade owns is wired to it: its open
\* event sets open, its message events reach the handler given to onMessage
\* and its error events reach the handler given to onClose.
C16_Reattached ==
    [][\A s \in 1..nStreams :
          s = sse =>
            /\ StreamOpen(s) => sseOpen'
            /\ (StreamMessage(s, "message", "valid") /\ messageHandler) =>
                  received' = Handled(s, "message")
            /\ (StreamError(s) /\ closeHandler) =>
                  received' = Handled(s, "close")]_vars

\* C17: reconnect() called while open is true produces no stream and leaves
\* the owned stream, the streams and the registered handlers as they were.
C17_ReconnectWhileOpen ==
    [][(reconnects' # reconnects /\ sseOpen) =>
          UNCHANGED <<nStreams, sse, streamState, wired, messageHandler, closeHandler,
                      sseOpen, received>>]_vars
C17_Witness ==
    /\ sseOpen
    /\ reconnects = 1
    /\ nStreams = 1
    /\ sse = 1

\* C19: no exception escapes send or the socket message callback.
C19_NoEscape == thrown = FALSE

\* C20: the message event emitted last carries the stream's lastEventId, which
\* is the id of its own packet when it has one and the persisted id otherwise.
C20_LastEventId ==
    (emitted # <<>> /\ Last(emitted).kind = "message") =>
        Last(emitted).lastEventId = lastEventId

\* ------------------------------------------------------------------ claims
Accepted == {i \in 1..Len(requests) : requests[i].id # NoId}
DeliveredIds == {delivered[k] : k \in 1..Len(delivered)}

\* C2: an event delivered by a socket that is no longer this.ws (superseded by
\* a reconnect or released by destroy) changes none of open, reconnectTries,
\* disconnectReason, this.ws and the pending table, settles no request and
\* invokes none of the four subscribers.
C2_StaleGuard ==
    [][(staleSeen' /\ ~staleSeen) =>
          UNCHANGED <<open, reconnectTries, disconnectReason, ws, pending, requests,
                      calls, delivered, nSockets>>]_vars
C2_Witness ==
    /\ staleSeen
    /\ open
    /\ nSockets > 1
    /\ DOMAIN pending # {}

\* C3: with autoReconnect and no socket ever opening, each of the first five
\* close events of the current socket constructs a new socket and invokes no
\* disconnect; the sixth constructs none and invokes disconnect for the first
\* and only time, with the reason of that close event.
C3_SixCloses ==
    /\ [](onlyCloses => calls.disconnect <= 1)
    /\ [][\A r \in Reasons :
            (SocketClose(ws, r) /\ onlyCloses /\ reconnect) =>
               IF nSockets <= MaxTries
               THEN /\ nSockets' = nSockets + 1
                    /\ calls.disconnect = 0
                    /\ calls'.disconnect = 0
               ELSE /\ nSockets = MaxTries + 1
                    /\ nSockets' = nSockets
                    /\ "disconnect" \in subs =>
                          /\ calls.disconnect = 0
                          /\ calls'.disconnect = 1
                          /\ calls'.reason = OrEmpty(r)]_vars
C3_Witness ==
    /\ onlyCloses
    /\ reconnect
    /\ nSockets = MaxTries + 1
    /\ sockPhase = "closed"
    /\ calls.disconnect = 1
    /\ calls.reason = "away"
    /\ disconnectReason = Undefined

\* C4: between two opens of a current socket (or between construction and the
\* first open) at most 5 sockets are constructed.
C4_BoundedRetry == sinceOpen <= MaxTries
C4_Witness ==
    /\ sinceOpen = MaxTries
    /\ calls.connect = 1
    /\ sockPhase = "closed"
    /\ sockErred
    /\ ws # NoSocket

\* C5: two accepted correlated sends issued at the same instant carry distinct
\* correlation ids.
C5_DistinctIds ==
    \A i, j \in Accepted :
        (i # j /\ requests[i].deadline = requests[j].deadline) =>
            requests[i].id # requests[j].id

\* C6: once the timeout of a correlated send has fired, the request is settled
\* (rejected with the timeout signal unless a reply resolved it before) and its
\* id is not in the pending table; a text frame carrying that id which arrives
\* afterwards on the current socket is handed to the message subscriber and
\* touches neither the table nor any request.
C6_Timeout ==
    /\ [](\A i \in Accepted :
            requests[i].timer = "fired" =>
                /\ requests[i].status \in {"timeout", "resolved"}
                /\ requests[i].id \notin DOMAIN pending)
    /\ [][\A f \in Frames :
            (/\ SocketMessage(ws, f)
             /\ f.kind = "text"
             /\ "message" \in subs
             /\ \E i \in Accepted : requests[i].id = f.id /\ requests[i].timer = "fired")
            => /\ delivered' = Append(delivered, f.id)
               /\ UNCHANGED <<pending, requests>>]_vars
C6_Witness ==
    \E i \in Accepted :
        /\ requests[i].status = "timeout"
        /\ requests[i].id \in DeliveredIds

\* C7: a parsed message of the current socket whose numeric id is in the
\* pending table resolves that request, removes the entry and is not handed to
\* the message subscriber; any other parsed message is handed to the message
\* subscriber and leaves the table and the requests unchanged.
C7_ExclusiveDispatch ==
    [][\A f \in Frames :
         (SocketMessage(ws, f) /\ f.kind = "text" /\ "message" \in subs) =>
            IF f.id # NoId /\ f.id \in DOMAIN pending
            THEN /\ pending' = Remove(pending, f.id)
                 /\ requests[pending[f.id]].status = "waiting"
                 /\ requests'[pending[f.id]].status = "resolved"
                 /\ delivered' = delivered
            ELSE /\ delivered' = Append(delivered, f.id)
                 /\ UNCHANGED <<pending, requests>>]_vars
C7_Witness ==
    /\ Resolved # {}
    /\ \E k \in 1..Len(delivered) : delivered[k] = NoId

\* C8: a frame is written only by a send on an open channel, and to the
\* current socket; a fire-and-forget send of a message the codec accepts
\* writes it when the channel is open, and when the channel is not open it
\* changes nothing and signals no error.
C8_FireAndForget ==
    /\ [][written' # written =>
            /\ open
            /\ ws # NoSocket
            /\ Len(written') = Len(written) + 1
            /\ written'[Len(written')].sock = ws]_vars
    /\ [][\A m \in ClientMessages :
            Send(m, FALSE) =>
               IF open
               THEN ParseClientOk(m) =>
                       written' = Append(written, [sock |-> ws, id |-> NoId])
               ELSE UNCHANGED <<written, requests, pending, thrown, calls>>]_vars
C8_Witness ==
    /\ ~open
    /\ \E k \in 1..Len(written) : written[k].id = NoId

\* C9: a correlated send on a channel that is not open returns a rejected
\* promise, writes nothing, adds no pending entry and arms no timer.
C9_RejectedWhenClosed ==
    /\ [](\A i \in Rejected : requests[i].timer = "none" /\ requests[i].id = NoId)
    /\ [][\A m \in ClientMessages :
            (Send(m, TRUE) /\ ~open) =>
               /\ Len(requests') = Len(requests) + 1
               /\ requests'[Len(requests')].status = "rejected"
               /\ requests'[Len(requests')].timer = "none"
               /\ UNCHANGED <<written, pending, thrown>>]_vars
C9_Witness ==
    /\ Rejected # {}
    /\ Accepted # {}
    /\ written # <<>>

\* C10: after destroy() the channel is not open and holds no socket, and no
\* later step constructs a socket, sets open or invokes a subscriber, also with
\* autoReconnect enabled.
C10_Destroyed ==
    /\ [](destroyed => ~open /\ ws = NoSocket)
    /\ [][destroyed =>
            /\ nSockets' = nSockets
            /\ ~open'
            /\ ws' = NoSocket
            /\ UNCHANGED <<calls, delivered>>]_vars
C10_Witness ==
    /\ destroyed
    /\ reconnect
    /\ staleSeen
    /\ nSockets = 1
    /\ subs # {}

\* C21: while the parser waits for the next chunk, its buffer holds no packet
\* terminator.
C21_NoTerminatorLeft == pc = "reading" => IndexOf(buffer, Terminator) = -1

\* C22: the open event of the current socket sets open, resets reconnectTries
\* to 0 and clears the disconnect reason; it invokes the connect subscriber
\* exactly when the socket is the one the constructor made, so connect is
\* invoked at most once.
C22_OpenResets ==
    /\ [](calls.connect <= 1)
    /\ [][(sockPhase = "connecting" /\ sockPhase' = "open") =>
            /\ open'
            /\ reconnectTries' = 0
            /\ disconnectReason' = Undefined
            /\ calls'.connect = IF "connect" \in subs /\ ws = 1
                                THEN calls.connect + 1 ELSE calls.connect]_vars
C22_Witness ==
    /\ open
    /\ ws = 2
    /\ calls.connect = 1
    /\ reconnectTries = 0
    /\ disconnectReason = Undefined

\* C23: a close event of the current socket, with autoReconnect and fewer than
\* 5 attempts made, records its reason, increments the attempt counter,
\* constructs a socket and invokes no subscriber; otherwise it leaves the
\* channel not open, constructs no socket and invokes disconnect once with
\* the reason, or the empty string.
C23_CloseEvent ==
    [][\A r \in Reasons :
          SocketClose(ws, r) =>
             IF reconnect /\ reconnectTries < MaxTries
             THEN /\ disconnectReason' = r
                  /\ reconnectTries' = reconnectTries + 1
                  /\ nSockets' = nSockets + 1
                  /\ ws' = nSockets'
                  /\ calls' = calls
             ELSE /\ ~open'
                  /\ nSockets' = nSockets
                  /\ ws' = ws
                  /\ IF "disconnect" \in subs
                     THEN /\ calls'.disconnect = calls.disconnect + 1
                          /\ calls'.reason = OrEmpty(r)
                     ELSE calls' = calls]_vars
C23_Witness ==
    /\ disconnectReason = "away"
    /\ reconnectTries = 1
    /\ ws = 2
    /\ sockPhase = "connecting"
    /\ "disconnect" \in subs
    /\ calls.disconnect = 0

\* C24: an error event of the current socket while the channel is not open and
\* reconnectTries is 0 invokes the failure subscriber, invokes neither connect
\* nor disconnect and constructs no socket.
C24_FirstFailure ==
    [][(SocketError(ws) /\ ~open /\ reconnectTries = 0) =>
          /\ calls'.failure = IF "failure" \in subs
                              THEN calls.failure + 1 ELSE calls.failure
          /\ calls'.connect = calls.connect
          /\ calls'.disconnect = calls.disconnect
          /\ UNCHANGED <<nSockets, ws, open, reconnectTries>>]_vars
C24_Witness ==
    /\ calls.failure = 1
    /\ calls.connect = 0
    /\ calls.disconnect = 0
    /\ nSockets = 1
    /\ sockErred
    /\ ~open

\* C25: an error event of the current socket while the channel is not open and
\* reconnectTries is above 0 constructs a socket when autoReconnect is set and
\* fewer than 5 attempts were made; otherwise it constructs none and invokes
\* disconnect with the recorded reason, or the empty string.  During a
\* reconnect sequence the recorded reason changes only by a close event of the
\* current socket, to the reason of that event.
C25_ErrorWhileReconnecting ==
    /\ [][(SocketError(ws) /\ ~open /\ reconnectTries > 0) =>
            IF reconnect /\ reconnectTries < MaxTries
            THEN /\ nSockets' = nSockets + 1
                 /\ ws' = nSockets'
                 /\ calls' = calls
            ELSE /\ nSockets' = nSockets
                 /\ ws' = ws
                 /\ IF "disconnect" \in subs
                    THEN /\ calls'.disconnect = calls.disconnect + 1
                         /\ calls'.reason = OrEmpty(disconnectReason)
                    ELSE calls' = calls]_vars
    /\ [][(reconnectTries' > 0 /\ disconnectReason' # disconnectReason) =>
            \E r \in Reasons : SocketClose(ws, r) /\ disconnectReason' = r]_vars
C25_Witness ==
    /\ calls.disconnect = 1
    /\ calls.reason = "away"
    /\ sockErred
    /\ sockPhase = "connecting"
    /\ reconnectTries = MaxTries + 1

\* C26: a reply that carries the id of a request still waiting, processed on
\* the current socket before the request's timeout, resolves the request and
\* leaves its id out of the pending table.
C26_SettledByFirstReply ==
    [][\A f \in Frames : \A i \in Accepted :
          (/\ SocketMessage(ws, f)
           /\ f.kind = "text"
           /\ f.id = requests[i].id
           /\ requests[i].status = "waiting") =>
              /\ requests'[i].status = "resolved"
              /\ f.id \notin DOMAIN pending']_vars

\* C27: a text frame of the current socket whose id is in the pending table
\* resolves that request and removes the entry, with or without a message
\* subscriber.
C27_ResolvesWithoutSubscriber ==
    [][\A f \in Frames :
          (/\ SocketMessage(ws, f)
           /\ f.kind = "text"
           /\ f.id # NoId
           /\ f.id \in DOMAIN pending) =>
              /\ pending' = Remove(pending, f.id)
              /\ requests'[pending[f.id]].status = "resolved"]_vars

\* C28: destroy() changes neither the pending table nor any request; after it
\* a request changes only from waiting to timed out, at its own deadline.
C28_DestroyKeepsPending ==
    /\ [][(destroyed' /\ ~destroyed) => UNCHANGED <<pending, requests>>]_vars
    /\ [][destroyed =>
            \A i \in 1..Len(requests) :
                requests'[i].status # requests[i].status =>
                    /\ requests[i].status = "waiting"
                    /\ requests'[i].status = "timeout"
                    /\ now >= requests[i].deadline]_vars
C28_Witness ==
    /\ destroyed
    /\ \E i \in Accepted :
          /\ requests[i].status = "waiting"
          /\ requests[i].timer = "armed"
          /\ requests[i].id \in DOMAIN pending

\* the streams that can still set open or reach a registered handler
Influential == {s \in 1..nStreams : s \in wired /\ streamState[s] # CLOSED}

\* C29: at most one stream can still set open or reach the registered
\* handlers, and every handler invocation so far came from one stream.
C29_OneActiveStream ==
    /\ Cardinality(Influential) <= 1
    /\ \A i, j \in 1..Len(received) : received[i].stream = received[j].stream
C29_Witness ==
    /\ nStreams = 3
    /\ \A s \in 1..nStreams : streamState[s] = OPEN
    /\ sseOpen
    /\ received # <<>>

Field(packet, label) ==
    LET lines == Split(packet)
        hits == {k \in 1..Len(lines) : StartsWith(lines[k], label \o Separator)}
    IN IF hits = {} THEN [present |-> FALSE, value |-> <<>>]
       ELSE [present |-> TRUE,
             value |-> SliceFrom(lines[CHOOSE k \in hits : TRUE], Len(label) + 2)]
\* the text is a non-negative integer in decimal digits
IsNaturalText(text) == text # <<>> /\ IsDigits(text)
\* the values of the data lines among these lines, joined by line feeds
RECURSIVE DataOf(_)
DataOf(lines) ==
    IF lines = <<>> THEN <<>>
    ELSE LET rest == DataOf(Tail(lines))
             isData == StartsWith(Head(lines), DataField \o Separator)
             value == SliceFrom(Head(lines), Len(DataField) + 2)
             more == \E k \in 2..Len(lines) :
                        StartsWith(lines[k], DataField \o Separator)
         IN IF ~isData THEN rest
            ELSE IF more THEN value \o <<NL>> \o rest
            ELSE value

\* C31: the reconnect delay changes only by a read that completes a message
\* packet whose retry value is a non-negative integer in decimal digits, and
\* then becomes that integer; a message packet whose retry value is anything
\* else leaves the delay as it was and is emitted as a message event.
C31_RetryOnlyNatural ==
    [][/\ reconnectAfter' # reconnectAfter => TakesPacket
       /\ TakesPacket =>
             \A packet \in {TakenPacket} :
             \A retry \in {Field(packet, RetryField)} :
                LET message == /\ ParsePacket(packet).err = "none"
                               /\ ~Field(packet, Comment).present
                    natural == message /\ retry.present /\ IsNaturalText(retry.value)
                IN /\ reconnectAfter' # reconnectAfter =>
                         (natural /\ reconnectAfter' = DigitsValue(retry.value))
                   /\ (message /\ retry.present /\ ~natural) =>
                         /\ reconnectAfter' = reconnectAfter
                         /\ Len(emitted') = Len(emitted) + 1
                         /\ Last(emitted').kind = "message"]_vars

\* C32: lastEventId changes only by a read that completes a message packet
\* with an id line, and is then the value of that line; every other read
\* leaves it as it was.  It starts as the empty string.
C32_LastIdOfStream ==
    [][/\ lastEventId' # lastEventId => TakesPacket
       /\ TakesPacket =>
             \A packet \in {TakenPacket} :
             \A id \in {Field(packet, IdField)} :
                LET message == /\ ParsePacket(packet).err = "none"
                               /\ ~Field(packet, Comment).present
                IN lastEventId' = IF message /\ id.present THEN id.value
                                  ELSE lastEventId]_vars

\* C33: the read that completes a packet whose lines are all accepted fails
\* with "neither data nor comment" when the packet has no data and no comment
\* line, and with "comment and data" when it has both; a message event is
\* emitted only by a read that completes a packet with a data line and without
\* a comment line.
C33_DataXorComment ==
    [][/\ (Len(emitted') > Len(emitted) /\ Last(emitted').kind = "message") =>
             TakesPacket
       /\ TakesPacket =>
             \A packet \in {TakenPacket} :
             \A data \in {Field(packet, DataField).present} :
             \A comment \in {Field(packet, Comment).present} :
                LET consumed == ParseLines(Split(packet), 1, <<>>).err = "none"
                    fails(cause) ==
                        /\ emitted' = Append(emitted,
                                             Event("error", <<>>, <<>>, <<>>, cause))
                        /\ readyState' = CLOSED
                        /\ pc' = "failed"
                IN /\ (consumed /\ ~data /\ ~comment) =>
                         fails("neither data nor comment")
                   /\ (consumed /\ data /\ comment) => fails("comment and data")
                   /\ (Len(emitted') > Len(emitted) /\ Last(emitted').kind = "message") =>
                         (data /\ ~comment)]_vars
C33_Witness ==
    /\ body = PacketBoth \o Terminator
    /\ pc = "failed"
    /\ Len(emitted) = 2
    /\ Last(emitted).kind = "error"
    /\ Last(emitted).cause = "comment and data"

\* C34: the message event emitted by a read has the type given by the event
\* line of the packet it completes when that line has a non-empty value, and
\* the type "message" otherwise; its payload is the values of the packet's data
\* lines, joined by line feeds.
C34_TypeAndPayload ==
    [][(TakesPacket /\ Len(emitted') > Len(emitted) /\ Last(emitted').kind = "message") =>
          \A packet \in {TakenPacket} :
          \A event \in {Field(packet, EventField)} :
             /\ Last(emitted').type =
                   IF event.present /\ event.value # <<>> THEN event.value
                   ELSE MessageType
             /\ Last(emitted').data = DataOf(Split(packet))]_vars
C34_Witness ==
    /\ body = PacketEvent \o Terminator \o PacketA \o Terminator
    /\ Len(emitted) = 3
    /\ emitted[2].type = <<"p">>
    /\ emitted[2].data = <<"a">>
    /\ emitted[3].type = MessageType
    /\ emitted[3].data = <<"a">>

\* the events of a kind among the emitted ones
EventsOf(events, kind) == SelectSeq(events, LAMBDA e : e.kind = kind)

\* C39: readyState never moves back from OPEN to CONNECTING or from CLOSED to
\* OPEN or CONNECTING; a stream emits at most one open event and at most one
\* error event; a message event is emitted only while the parser is OPEN.
C39_ForwardOnly ==
    /\ [](/\ Len(EventsOf(emitted, "open")) <= 1
          /\ Len(EventsOf(emitted, "error")) <= 1)
    /\ [][/\ readyState' >= readyState
          /\ (Len(emitted') > Len(emitted) /\ Last(emitted').kind = "message") =>
                (readyState = OPEN /\ readyState' = OPEN)]_vars
C39_Witness ==
    /\ readyState = CLOSED
    /\ Len(emitted) = 3
    /\ emitted[1].kind = "open"
    /\ emitted[2].kind = "message"
    /\ emitted[3].kind = "error"
    /\ pc = "failed"

\* C40: an event of a type other than "message" that reaches the facade
\* invokes no handler and leaves open as it was; the handler given to
\* onMessage is invoked only for an event of type "message".
C40_OnlyMessageType ==
    [][/\ dropped' # dropped => UNCHANGED <<received, sseOpen>>
       /\ (Len(received') > Len(received) /\ Last(received').kind = "message") =>
             (dropped' = dropped /\ messageHandler)]_vars
C40_Witness ==
    /\ dropped = 1
    /\ messageHandler
    /\ sseOpen
    /\ Len(received) = 1
    /\ received[1].kind = "message"

\* C35: while the channel is open, this.ws is a socket that has delivered its
\* open event, reconnectTries is 0 and the disconnect reason is cleared; so
\* while reconnectTries is positive the channel is not open, and a send then
\* writes no frame and returns nothing or a rejected promise.
C35_OpenMeansConnected ==
    /\ [](open => /\ ws # NoSocket
                  /\ sockPhase = "open"
                  /\ reconnectTries = 0
                  /\ disconnectReason = Undefined)
    /\ [][reconnectTries > 0 =>
             /\ written' = written
             /\ Len(requests') > Len(requests) =>
                   (Last(requests').status = "rejected" /\ pending' = pending)]_vars
C35_Witness ==
    /\ reconnectTries = 1
    /\ ~open
    /\ ws = 2
    /\ sockPhase = "connecting"
    /\ Len(requests) = 1
    /\ requests[1].status = "rejected"
    /\ written = <<>>

\* C36: the disconnect subscriber is invoked at most once in the life of a
\* channel: after giving up the channel constructs no further socket, so the
\* one give-up is reported once, also when the last socket delivers an error
\* event and then its close event.
C36_OneDisconnect == calls.disconnect <= 1

\* C37: when the timer of a request fires, every other request that is still
\* waiting for its reply keeps its entry in the pending table.
C37_TimerSparesOthers ==
    [][\A i \in Accepted :
          (requests[i].timer = "armed" /\ requests'[i].timer = "fired") =>
             \A j \in Accepted \ {i} :
                (/\ requests[j].status = "waiting"
                 /\ requests[j].id \in DOMAIN pending
                 /\ pending[requests[j].id] = j) =>
                    (requests[j].id \in DOMAIN pending' /\ pending'[requests[j].id] = j)]_vars

\* the frame written for a request with this id went out on a socket that has
\* since been replaced
SentBefore(id) == \E k \in 1..Len(written) : written[k].id = id /\ written[k].sock < ws

\* C38: the construction of a new socket leaves the pending table and the
\* requests as they were, and a text frame on the current socket that carries
\* the id of a pending request sent on an earlier socket resolves that request
\* and removes its entry.
C38_PendingSurvives ==
    [][/\ nSockets' # nSockets => UNCHANGED <<pending, requests>>
       /\ \A f \in Frames :
             (/\ SocketMessage(ws, f)
              /\ f.kind = "text"
              /\ f.id \in DOMAIN pending
              /\ SentBefore(f.id)) =>
                 /\ requests'[pending[f.id]].status = "resolved"
                 /\ f.id \notin DOMAIN pending']_vars

TypeOK ==
    /\ open \in BOOLEAN
    /\ reconnect \in BOOLEAN
    /\ reconnectTries \in 0..(MaxTries + 2)
    /\ ws \in 0..nSockets
    /\ nSockets \in 1..MaxSockets
    /\ subs \subseteq Subscribers
====
